---------------------------- MODULE Spec2Model ----------------------------
(***************************************************************************)
(* A model of aia_utilities (src/src/aia_utilities/aia_utilities.py):      *)
(* Redis_Utilities on one Redis stream, with the operations write,          *)
(* read_all, read_each (the tail), delete and trim and the Redis commands   *)
(* they issue (XADD with approximate MAXLEN, XRANGE, XREAD, XTRIM MINID,    *)
(* XDEL, DEL), and the TimeBasedMovement tracker (add, clear, calc).        *)
(* filteredDelete and latestMatching, which the source does not hold, are   *)
(* modelled from the specification.                                        *)
(*                                                                         *)
(* The specifications share the state and the actions:                     *)
(*   Spec        write, trim (both paths, step by step), delete, outages;  *)
(*   ReadSpec    write, entries added by other clients, read_all;          *)
(*   SortSpec    read_all on a store that holds up to four events;         *)
(*   TailSpec    write, entries added by other clients, outages and one    *)
(*               read_each consumer, with fairness of its polling loop;    *)
(*   ConcSpec    write and two read_each consumers, with fairness of both; *)
(*   FilterSpec  write, entries added by other clients, filteredDelete     *)
(*               and latestMatching;                                       *)
(*   MoveSpec    one tracker: add in any order of time, clear, calc;       *)
(*   FillSpec    one tracker filled past its capacity.                     *)
(***************************************************************************)
EXTENDS Integers, Sequences, FiniteSets, TLC

\* ------------------------------------------------------------- bounds
MaxClock == 2          \* server time runs over 1..MaxClock (milliseconds)
MaxWrites == 3         \* entries appended by write
MaxForeign == 1        \* entries appended by other clients
MaxRetention == 2      \* stream_maxlen is drawn from 1..MaxRetention
Slack == 1             \* entries an approximate trim may leave above MAXLEN
TicksPerMs == 2        \* resolution of a cutoff instant, in ticks per millisecond

Consumers == {"c1", "c2"}

VARIABLES
    up,             \* the store answers (FALSE: every command raises)
    stream_maxlen,  \* self.stream_maxlen
    exists,         \* the stream key exists in the store
    stream,         \* its entries, in entry-id order
    lastgen,        \* the stream's last generated id (<<0,0>> for no key)
    clock,          \* server time of the latest XADD
    log,            \* history: every entry ever appended, in order
    wsince,         \* history: an append succeeded since the last successful DEL
    ret,            \* what the latest completed call returned, and on what
    tpc, tminid, tids, tinter,       \* the trim call in progress
    pc, cursor, batch, yielded,      \* the read_each generators
    fetched,        \* history: the ids each generator got from xread
    made,           \* a TimeBasedMovement tracker has been constructed
    range,          \* its self.range (minutes)
    data,           \* its self.data: the samples, in insertion order
    added           \* history: the samples added since the last clear

storeVars == <<up, stream_maxlen, exists, stream, lastgen, clock, log, wsince>>
trimVars == <<tpc, tminid, tids, tinter>>
tailVars == <<pc, cursor, batch, yielded, fetched>>
moveVars == <<made, range, data, added>>
vars == <<up, stream_maxlen, exists, stream, lastgen, clock, log, wsince,
          ret, tpc, tminid, tids, tinter, pc, cursor, batch, yielded, fetched,
          made, range, data, added>>

\* ------------------------------------------------------------- values
\* A JSON value is <<tag, a, b>>: a number a, a string (ordered by a, 0 the
\* empty string), an entry id a-b as read_all attaches it, or a Python object
\* json cannot serialise.
Num(n) == <<"num", n, 0>>
Str(n) == <<"str", n, 0>>
IdVal(id) == <<"eid", id[1], id[2]>>
Obj == <<"obj", 0, 0>>
Null == <<"null", 0, 0>>
EmptyStr == Str(0)

\* The keys of a dict in the order json.dumps emits them.
KeySeq == <<"timestamp", "id", "_id">>
Keys == {KeySeq[i] : i \in 1..Len(KeySeq)}
EmptyEvent == [k \in {} |-> Null]

Range(s) == {s[i] : i \in 1..Len(s)}

IsPrefix(s, t) == Len(s) <= Len(t) /\ SubSeq(t, 1, Len(s)) = s

\* ------------------------------------------------------------- codec
\* JSON text is a sequence of tokens.
Tok(c, k, v) == [c |-> c, k |-> k, v |-> v]
LBrace == Tok("{", "", Null)
RBrace == Tok("}", "", Null)

RECURSIVE DumpItems(_, _)
DumpItems(ev, i) ==
    IF i > Len(KeySeq) THEN <<>>
    ELSE (IF KeySeq[i] \in DOMAIN ev
            THEN <<Tok("key", KeySeq[i], Null), Tok("val", "", ev[KeySeq[i]])>>
            ELSE <<>>) \o DumpItems(ev, i + 1)

\* json.dumps(value) for a dict: TypeError (ok = FALSE) on a value it cannot
\* serialise.
Dumps(ev) ==
    IF \E k \in DOMAIN ev : ev[k] = Obj
    THEN [ok |-> FALSE, text |-> <<>>]
    ELSE [ok |-> TRUE, text |-> <<LBrace>> \o DumpItems(ev, 1) \o <<RBrace>>]

\* The items between the braces, folded into a dict; a repeated key keeps its
\* last value.
RECURSIVE ParseItems(_, _, _)
ParseItems(text, i, acc) ==
    IF i > Len(text) - 1 THEN [ok |-> TRUE, ev |-> acc]
    ELSE IF i + 1 > Len(text) - 1 \/ text[i].c # "key" \/ text[i + 1].c # "val"
         THEN [ok |-> FALSE, ev |-> acc]
    ELSE ParseItems(text, i + 2,
            [k \in (DOMAIN acc) \cup {text[i].k} |->
                IF k = text[i].k THEN text[i + 1].v ELSE acc[k]])

\* json.loads(raw): ok = FALSE is json.JSONDecodeError; isdict tells a mapping
\* from any other JSON value.
Loads(text) ==
    IF Len(text) = 1 /\ text[1].c = "val"
    THEN [ok |-> TRUE, isdict |-> FALSE, ev |-> EmptyEvent, v |-> text[1].v]
    ELSE IF Len(text) >= 2 /\ text[1].c = "{" /\ text[Len(text)].c = "}"
              /\ ParseItems(text, 2, EmptyEvent).ok
         THEN [ok |-> TRUE, isdict |-> TRUE,
               ev |-> ParseItems(text, 2, EmptyEvent).ev, v |-> Null]
    ELSE [ok |-> FALSE, isdict |-> FALSE, ev |-> EmptyEvent, v |-> Null]

\* ------------------------------------------------------------- entries
\* A stream entry: its id <<ms, seq>> and its fields, of which only 'data'
\* matters: present or not, valid UTF-8 or not, and its text.
Entry(id, present, utf8, text) ==
    [id |-> id, present |-> present, utf8 |-> utf8, text |-> text]

IdLT(a, b) == a[1] < b[1] \/ (a[1] = b[1] /\ a[2] < b[2])
IdLE(a, b) == a = b \/ IdLT(a, b)

\* raw = fields.get(b'data') or fields.get('data'): None when the field is
\* missing, and when it is empty (b'' is falsy, and there is no 'data' key).
RawIsNone(e) == ~e.present \/ e.text = <<>>

\* An entry as write stores it.
IsEventEntry(e) ==
    ~RawIsNone(e) /\ e.utf8 /\ Loads(e.text).ok /\ Loads(e.text).isdict

NumForeign(l) == Cardinality({i \in 1..Len(l) : ~IsEventEntry(l[i])})
NumWritten(l) == Len(l) - NumForeign(l)

\* ------------------------------------------------------------- list.sort
\* items.sort(key=lambda x: x.get('timestamp', ''))
TsKey(x) == IF "timestamp" \in DOMAIN x THEN x["timestamp"] ELSE EmptyStr

\* Python orders numbers with numbers and strings with strings; any other
\* comparison raises TypeError.
Comparable(a, b) == a[1] = b[1] /\ a[1] \in {"num", "str"}
KeyLT(a, b) == a[2] < b[2]

\* A slip: the element stays where it is (no sort).
InsertSorted_NoSort(s, x) == Append(s, x)

\* x goes after every element whose key is not greater (the sort is stable).
RECURSIVE InsertSorted(_, _)
InsertSorted(s, x) ==
    IF s = <<>> THEN <<x>>
    ELSE IF KeyLT(TsKey(x), TsKey(s[Len(s)]))
         THEN Append(InsertSorted(SubSeq(s, 1, Len(s) - 1), x), s[Len(s)])
         ELSE Append(s, x)

RECURSIVE SortPrefix(_, _)
SortPrefix(s, n) == IF n = 0 THEN <<>> ELSE InsertSorted(SortPrefix(s, n - 1), s[n])

\* The first element whose key cannot be compared with those before it (0: none).
FirstBad(s) ==
    LET bad == {i \in 2..Len(s) : ~Comparable(TsKey(s[i]), TsKey(s[1]))}
    IN IF bad = {} THEN 0 ELSE CHOOSE i \in bad : \A j \in bad : i <= j

\* The length of the run the sort finds at the start of s[1..n]: ascending, or
\* strictly descending.
RECURSIVE RunEnd(_, _, _, _)
RunEnd(s, r, n, desc) ==
    IF r >= n THEN r
    ELSE IF KeyLT(TsKey(s[r + 1]), TsKey(s[r])) = desc THEN RunEnd(s, r + 1, n, desc)
    ELSE r

RunLen(s, n) ==
    IF n < 2 THEN n ELSE RunEnd(s, 2, n, KeyLT(TsKey(s[2]), TsKey(s[1])))

\* list.sort on a short list: the first run, then binary insertion of the rest.
\* ok = FALSE is the TypeError of a comparison: raised while the first run is
\* counted, it leaves the list as it was; raised by an insertion, it leaves the
\* elements before the offending one sorted.
PySort(s) ==
    LET f == FirstBad(s) IN
    IF Len(s) < 2 THEN [ok |-> TRUE, items |-> s]
    ELSE IF f = 0 THEN [ok |-> TRUE, items |-> SortPrefix(s, Len(s))]
    ELSE IF RunLen(s, f - 1) = f - 1 THEN [ok |-> FALSE, items |-> s]
    ELSE [ok |-> FALSE, items |-> SortPrefix(s, f - 1) \o SubSeq(s, f, Len(s))]

\* ------------------------------------------------------------- read_all
\* A slip: data['_id'] = entry_id, which overwrites the event's own _id.
SetDefaultId_Overwrite(ev, id) ==
    [k \in (DOMAIN ev) \cup {"_id"} |-> IF k = "_id" THEN IdVal(id) ELSE ev[k]]

\* data.setdefault('_id', entry_id)
SetDefaultId(ev, id) ==
    [k \in (DOMAIN ev) \cup {"_id"} |-> IF k \in DOMAIN ev THEN ev[k] ELSE IdVal(id)]

\* The loop over the entries XRANGE returned. raised = TRUE: an exception left
\* read_all (UnicodeDecodeError from raw.decode(), AttributeError from
\* data.setdefault on a JSON value that is no dict).
RECURSIVE ReadLoop(_, _, _)
ReadLoop(s, i, items) ==
    IF i > Len(s) THEN [raised |-> FALSE, items |-> items]
    ELSE IF RawIsNone(s[i]) THEN ReadLoop(s, i + 1, items)
    ELSE IF ~s[i].utf8 THEN [raised |-> TRUE, items |-> items]
    ELSE IF ~Loads(s[i].text).ok THEN ReadLoop(s, i + 1, items)
    ELSE IF ~Loads(s[i].text).isdict THEN [raised |-> TRUE, items |-> items]
    ELSE ReadLoop(s, i + 1, Append(items, SetDefaultId(Loads(s[i].text).ev, s[i].id)))

\* read_all(prefix, order) on stream contents s, the store reachable or not.
ReadAllResult(s, order, isUp) ==
    IF ~isUp THEN [raised |-> FALSE, items |-> <<>>]
    ELSE IF ReadLoop(s, 1, <<>>).raised \/ ~order THEN ReadLoop(s, 1, <<>>)
    ELSE [raised |-> FALSE, items |-> PySort(ReadLoop(s, 1, <<>>).items).items]

ReadAll(order) ==
    /\ ret' = [op |-> "read_all", order |-> order, src |-> stream, up |-> up,
               raised |-> ReadAllResult(stream, order, up).raised,
               items |-> ReadAllResult(stream, order, up).items]
    /\ UNCHANGED <<storeVars, trimVars, tailVars, moveVars>>

\* ------------------------------------------------------------- the store
\* The id XADD * generates at server time t.
NextId(t) == IF t > lastgen[1] THEN <<t, 0>> ELSE <<lastgen[1], lastgen[2] + 1>>

\* How many entries an approximate MAXLEN n trim may keep of len: never fewer
\* than n, and at most Slack more.
Kept(len, n) == IF len <= n THEN {len} ELSE {k \in n..len : k <= n + Slack}

LastN(s, k) == SubSeq(s, Len(s) - k + 1, Len(s))

\* XADD key [MAXLEN ~ arg.maxlen] * data <text>, the entry e carrying the id the
\* server generated; arg.trim = FALSE is XADD without MAXLEN.
XAdd(e, arg) ==
    /\ \E k \in (IF arg.trim THEN Kept(Len(stream) + 1, arg.maxlen) ELSE {Len(stream) + 1}) :
           stream' = LastN(Append(stream, e), k)
    /\ lastgen' = e.id
    /\ clock' = e.id[1]
    /\ exists' = TRUE
    /\ log' = Append(log, e)
    /\ wsince' = TRUE
    /\ tinter' = (tinter \/ tpc = "scanned")

\* ------------------------------------------------------------- write
\* What write does with its argument: "raise" (the assert fails), "drop" (the
\* exception of json.dumps or of xadd is printed and swallowed) or "store".
\* A slip: the exception of xadd is not caught.
WriteOutcome_Propagates(value, isUp) ==
    IF ~value.isdict \/ (Dumps(value.ev).ok /\ ~isUp) THEN "raise"
    ELSE IF ~Dumps(value.ev).ok THEN "drop"
    ELSE "store"

WriteOutcome(value, isUp) ==
    IF ~value.isdict THEN "raise"
    ELSE IF ~Dumps(value.ev).ok \/ ~isUp THEN "drop"
    ELSE "store"

\* A slip: xadd without maxlen.
WriteXAddArg_NoMaxlen(n) == [trim |-> FALSE, maxlen |-> n]

\* maxlen=self.stream_maxlen, approximate=True
WriteXAddArg(n) == [trim |-> TRUE, maxlen |-> n]

Write(value, t) ==
    /\ NumWritten(log) < MaxWrites
    /\ IF WriteOutcome(value, up) = "store"
       THEN XAdd(Entry(NextId(t), TRUE, TRUE, Dumps(value.ev).text),
                 WriteXAddArg(stream_maxlen))
       ELSE UNCHANGED <<stream, lastgen, clock, exists, log, wsince, tinter>>
    /\ ret' = [op |-> "write", value |-> value, up |-> up,
               raised |-> (WriteOutcome(value, up) = "raise"),
               stored |-> (WriteOutcome(value, up) = "store"),
               trimmed |-> Len(log') - Len(log) + Len(stream) - Len(stream')]
    /\ UNCHANGED <<up, stream_maxlen, tpc, tminid, tids, tailVars, moveVars>>

\* ------------------------------------------------------------- environment
\* Entries of other clients, which the readers must survive: no data field,
\* bytes that are not UTF-8, text that is not JSON, JSON that is not a dict.
ForeignEntries(id) ==
    { Entry(id, FALSE, TRUE, <<>>),
      Entry(id, TRUE, FALSE, <<LBrace>>),
      Entry(id, TRUE, TRUE, <<LBrace>>),
      Entry(id, TRUE, TRUE, <<Tok("val", "", Num(1))>>) }

ForeignAdd(t) ==
    /\ up
    /\ NumForeign(log) < MaxForeign
    /\ \E e \in ForeignEntries(NextId(t)) : XAdd(e, [trim |-> FALSE, maxlen |-> 0])
    /\ UNCHANGED <<up, stream_maxlen, ret, tpc, tminid, tids, tailVars, moveVars>>

\* ------------------------------------------------------------- delete
\* A slip: True whenever DEL raised nothing.
DeleteReturn_Always(isUp, removed) == isUp

\* bool(res) of the number of keys DEL removed; False when it raised.
DeleteReturn(isUp, removed) == isUp /\ removed > 0

Delete ==
    /\ ret' = [op |-> "delete", up |-> up, wsince |-> wsince,
               wasempty |-> (stream = <<>>),
               val |-> DeleteReturn(up, IF exists THEN 1 ELSE 0)]
    /\ IF up /\ exists
       THEN /\ exists' = FALSE
            /\ stream' = <<>>
            /\ lastgen' = <<0, 0>>
            /\ wsince' = FALSE
       ELSE UNCHANGED <<exists, stream, lastgen, wsince>>
    /\ UNCHANGED <<up, stream_maxlen, clock, log, trimVars, tailVars, moveVars>>

\* ------------------------------------------------------------- trim
\* cutoff_ms = int(dt.timestamp() * 1000) of an instant given in ticks.
CutoffMs(ticks) == ticks \div TicksPerMs
MinId(ticks) == <<CutoffMs(ticks), 0>>

\* XTRIM key MINID minid: the entries it evicts are those below minid.
Evicted(s, minid) == {i \in 1..Len(s) : IdLT(s[i].id, minid)}

\* A slip: the fallback scans the whole stream (max='+').
ScanIds_All(s, minid) == {s[i].id : i \in 1..Len(s)}

\* ids of xrange(stream_name, min='-', max=minid): both ends inclusive.
ScanIds(s, minid) == {s[i].id : i \in {j \in 1..Len(s) : IdLE(s[j].id, minid)}}

Without(s, ids) == SelectSeq(s, LAMBDA e : e.id \notin ids)

TrimRet(path, minid, none, n) ==
    [op |-> "trim", path |-> path, minid |-> minid, none |-> none, n |-> n,
     inter |-> tinter, raised |-> FALSE]

\* trim(stream_name, timestamp) up to the fast path: XTRIM MINID, which the
\* server may not know (supported = FALSE) or the store not answer.
TrimCall(ticks, supported) ==
    /\ tpc = "idle"
    /\ IF up /\ supported
       THEN /\ stream' = Without(stream, {stream[i].id : i \in Evicted(stream, MinId(ticks))})
            /\ ret' = TrimRet("fast", MinId(ticks), FALSE,
                              Cardinality(Evicted(stream, MinId(ticks))))
            /\ UNCHANGED <<tpc, tminid, tids, tinter>>
       ELSE /\ tpc' = "fallback"
            /\ tminid' = MinId(ticks)
            /\ tinter' = FALSE
            /\ UNCHANGED <<stream, ret, tids>>
    /\ UNCHANGED <<up, stream_maxlen, exists, lastgen, clock, log, wsince, tailVars,
                   moveVars>>

\* What trim may be handed as its timestamp: an ISO-8601 string (which may not
\* parse), a datetime, or a value of another type.
IsoString(ticks) == [type |-> "str", parses |-> TRUE, ticks |-> ticks]
BadString == [type |-> "str", parses |-> FALSE, ticks |-> 0]
Datetime(ticks) == [type |-> "datetime", parses |-> TRUE, ticks |-> ticks]
NotATime == [type |-> "other", parses |-> FALSE, ticks |-> 0]

\* string_to_datetime(date_string): None when fromisoformat raises.
string_to_datetime(ts) ==
    IF ts.parses THEN [none |-> FALSE, ticks |-> ts.ticks]
    ELSE [none |-> TRUE, ticks |-> 0]

\* The normalisation at the head of trim: "raise" (TypeError), "none" (the
\* string did not parse: printed, None returned) or "go".
TrimArg(ts) ==
    IF ts.type \notin {"str", "datetime"} THEN "raise"
    ELSE IF ts.type = "str" /\ string_to_datetime(ts).none THEN "none"
    ELSE "go"

\* trim(stream_name, timestamp), from the call to the answer of XTRIM.
Trim(ts, supported) ==
    IF TrimArg(ts) = "go"
    THEN TrimCall(ts.ticks, supported)
    ELSE /\ tpc = "idle"
         /\ ret' = [op |-> "trim", path |-> "arg", minid |-> <<0, 0>>,
                    none |-> (TrimArg(ts) = "none"), n |-> 0, inter |-> FALSE,
                    raised |-> (TrimArg(ts) = "raise")]
         /\ UNCHANGED <<storeVars, trimVars, tailVars, moveVars>>

\* The fallback's xrange.
TrimScan ==
    /\ tpc = "fallback"
    /\ IF ~up
       THEN /\ ret' = TrimRet("fallback", tminid, TRUE, 0)
            /\ tpc' = "idle"
            /\ UNCHANGED tids
       ELSE IF ScanIds(stream, tminid) = {}
       THEN /\ ret' = TrimRet("fallback", tminid, FALSE, 0)
            /\ tpc' = "idle"
            /\ UNCHANGED tids
       ELSE /\ tids' = ScanIds(stream, tminid)
            /\ tpc' = "scanned"
            /\ UNCHANGED ret
    /\ UNCHANGED <<storeVars, tminid, tinter, tailVars, moveVars>>

\* The fallback's xdel of the ids scanned.
TrimDel ==
    /\ tpc = "scanned"
    /\ IF ~up
       THEN /\ ret' = TrimRet("fallback", tminid, TRUE, 0)
            /\ UNCHANGED stream
       ELSE /\ stream' = Without(stream, tids)
            /\ ret' = TrimRet("fallback", tminid, FALSE,
                              Len(stream) - Len(Without(stream, tids)))
    /\ tpc' = "idle"
    /\ tids' = {}
    /\ tinter' = FALSE
    /\ UNCHANGED <<up, stream_maxlen, exists, lastgen, clock, log, wsince, tminid,
                   tailVars, moveVars>>

\* ------------------------------------------------------------- filteredDelete, latestMatching
\* The entry decodes to an event whose field has the value.
Matches(e, field, value) ==
    /\ IsEventEntry(e)
    /\ field \in DOMAIN Loads(e.text).ev
    /\ Loads(e.text).ev[field] = value

\* A slip: an entry that does not decode ends the scan.
RECURSIVE FilterScan_Aborts(_, _, _, _, _)
FilterScan_Aborts(s, i, field, value, ids) ==
    IF i > Len(s) \/ ~IsEventEntry(s[i]) THEN ids
    ELSE FilterScan_Aborts(s, i + 1, field, value,
            IF Matches(s[i], field, value) THEN ids \cup {s[i].id} ELSE ids)

\* The scan of filteredDelete: every entry in order, each decoded, the ids of
\* those to delete collected; an entry that does not decode is skipped.
RECURSIVE FilterScan(_, _, _, _, _)
FilterScan(s, i, field, value, ids) ==
    IF i > Len(s) THEN ids
    ELSE IF ~IsEventEntry(s[i]) THEN FilterScan(s, i + 1, field, value, ids)
    ELSE FilterScan(s, i + 1, field, value,
            IF Matches(s[i], field, value) THEN ids \cup {s[i].id} ELSE ids)

\* filteredDelete(stream_name, field, value)
FilteredDelete(field, value) ==
    /\ up
    /\ stream' = Without(stream, FilterScan(stream, 1, field, value, {}))
    /\ ret' = [op |-> "filteredDelete", field |-> field, value |-> value,
               src |-> stream]
    /\ UNCHANGED <<up, stream_maxlen, exists, lastgen, clock, log, wsince, trimVars,
                   tailVars, moveVars>>

NotFound == [found |-> FALSE, payload |-> EmptyEvent]

\* The scan of latestMatching, from entry i down to the oldest.
RECURSIVE LatestScan(_, _, _, _)
LatestScan(s, i, field, value) ==
    IF i = 0 THEN NotFound
    ELSE IF Matches(s[i], field, value)
         THEN [found |-> TRUE, payload |-> Loads(s[i].text).ev]
    ELSE LatestScan(s, i - 1, field, value)

\* latestMatching(stream_name, field, value)
LatestMatching(field, value) ==
    /\ up
    /\ ret' = [op |-> "latestMatching", field |-> field, value |-> value,
               src |-> stream, after |-> ret.op,
               found |-> LatestScan(stream, Len(stream), field, value).found,
               payload |-> LatestScan(stream, Len(stream), field, value).payload]
    /\ UNCHANGED <<storeVars, trimVars, tailVars, moveVars>>

\* ------------------------------------------------------------- read_each
\* A slip: the entry at the cursor is read again (ids >= last_id).
XRead_Inclusive(s, last) == SelectSeq(s, LAMBDA e : IdLE(last, e.id))

\* xread({prefix: last_id}, block=1000): every entry with an id above last_id.
XRead(s, last) == SelectSeq(s, LAMBDA e : IdLT(last, e.id))

\* A slip: last_id kept on the instance, one cursor for every generator.
SetCursor_Shared(c, id) == [d \in Consumers |-> id]

\* last_id is a local of the generator.
SetCursor(c, id) == [cursor EXCEPT ![c] = id]

\* A slip: the exception ends the generator.
AfterError_Stops == "done"

\* except Exception: print, time.sleep(0.5), and the loop goes on.
AfterError == "sleep"

\* The first next() on the generator: last_id = '0-0'.
TailStart(c) ==
    /\ pc[c] = "new"
    /\ pc' = [pc EXCEPT ![c] = "poll"]
    /\ cursor' = SetCursor(c, <<0, 0>>)
    /\ UNCHANGED <<storeVars, ret, trimVars, batch, yielded, fetched, moveVars>>

\* One xread: it raises, or times out with nothing (continue), or returns the
\* entries above the cursor.
TailRead(c) ==
    /\ pc[c] = "poll"
    /\ IF ~up
       THEN /\ pc' = [pc EXCEPT ![c] = AfterError]
            /\ UNCHANGED <<batch, fetched>>
       ELSE IF XRead(stream, cursor[c]) = <<>>
       THEN UNCHANGED <<pc, batch, fetched>>
       ELSE /\ batch' = [batch EXCEPT ![c] = XRead(stream, cursor[c])]
            /\ fetched' = [fetched EXCEPT
                              ![c] = @ \cup {e.id : e \in Range(XRead(stream, cursor[c]))}]
            /\ pc' = [pc EXCEPT ![c] = "batch"]
    /\ UNCHANGED <<storeVars, ret, trimVars, cursor, yielded, moveVars>>

\* The sleep is over.
TailWake(c) ==
    /\ pc[c] = "sleep"
    /\ pc' = [pc EXCEPT ![c] = "poll"]
    /\ UNCHANGED <<storeVars, ret, trimVars, cursor, batch, yielded, fetched, moveVars>>

\* The next entry of the response: skipped (no data, no JSON), or raising
\* (raw.decode() on bytes that are not UTF-8, caught by the outer except, the
\* rest of the response dropped), or yielded with the cursor moved to it.
TailEntry(c) ==
    /\ pc[c] = "batch"
    /\ LET e == Head(batch[c])
           rest == Tail(batch[c])
           back == IF rest = <<>> THEN "poll" ELSE "batch"
       IN IF RawIsNone(e) \/ (e.utf8 /\ ~Loads(e.text).ok)
          THEN /\ batch' = [batch EXCEPT ![c] = rest]
               /\ pc' = [pc EXCEPT ![c] = back]
               /\ UNCHANGED <<cursor, yielded>>
          ELSE IF ~e.utf8
          THEN /\ batch' = [batch EXCEPT ![c] = <<>>]
               /\ pc' = [pc EXCEPT ![c] = AfterError]
               /\ UNCHANGED <<cursor, yielded>>
          ELSE /\ cursor' = SetCursor(c, e.id)
               /\ yielded' = [yielded EXCEPT ![c] = Append(@, Loads(e.text))]
               /\ batch' = [batch EXCEPT ![c] = rest]
               /\ pc' = [pc EXCEPT ![c] = back]
    /\ UNCHANGED <<storeVars, ret, trimVars, fetched, moveVars>>

TailStep(c) == TailStart(c) \/ TailRead(c) \/ TailWake(c) \/ TailEntry(c)

\* ------------------------------------------------------------- TimeBasedMovement
\* self.max_size = 500
max_size == 500

\* {"timestamp": timestamp, "price": price}; a timestamp counts minutes.
Sample(t, p) == [timestamp |-> t, price |-> p]

\* TimeBasedMovement(range)
NewTracker(r) ==
    /\ ~made
    /\ made' = TRUE
    /\ range' = r
    /\ data' = <<>>
    /\ added' = <<>>
    /\ UNCHANGED <<storeVars, ret, trimVars, tailVars>>

\* A slip: the history is never cut back.
Appended_NoEvict(d, x) == Append(d, x)

\* self.data.append(...), then self.data.pop(0) if it is longer than max_size.
Appended(d, x) ==
    IF Len(Append(d, x)) > max_size THEN Tail(Append(d, x)) ELSE Append(d, x)

\* add(timestamp, price)
Add(t, p) ==
    /\ made
    /\ data' = Appended(data, Sample(t, p))
    /\ added' = Append(added, Sample(t, p))
    /\ ret' = [op |-> "add"]
    /\ UNCHANGED <<storeVars, trimVars, tailVars, made, range>>

\* clear()
Clear ==
    /\ made
    /\ data' = <<>>
    /\ added' = <<>>
    /\ ret' = [op |-> "clear"]
    /\ UNCHANGED <<storeVars, trimVars, tailVars, made, range>>

\* A float is the fraction num/den in lowest terms, den positive.
RECURSIVE GCD(_, _)
GCD(a, b) == IF b = 0 THEN a ELSE GCD(b, a % b)
Abs(n) == IF n < 0 THEN 0 - n ELSE n
Frac(n, d) ==
    LET g == GCD(Abs(n), Abs(d))
        sg == IF d < 0 THEN 0 - 1 ELSE 1
    IN [num |-> sg * (n \div g), den |-> sg * (d \div g)]
Zero == Frac(0, 1)

\* A slip: the window takes in the sample at the edge (>=).
Relevant_Inclusive(d, r) ==
    SelectSeq(d, LAMBDA x : x.timestamp >= d[Len(d)].timestamp - r)

\* range_ago = self.data[-1]["timestamp"] - Timedelta(minutes=self.range);
\* relevant_data = [d for d in self.data if d["timestamp"] > range_ago]
Relevant(d, r) ==
    SelectSeq(d, LAMBDA x : x.timestamp > d[Len(d)].timestamp - r)

\* ((end_price - start_price) / start_price) * 100
Movement(start_price, end_price) ==
    Frac((end_price - start_price) * 100, start_price)

\* What calc returns on history d with range r.
CalcResult(d, r) ==
    IF Len(d) < 2 THEN Zero
    ELSE IF Relevant(d, r) = <<>> THEN Zero
    ELSE IF Relevant(d, r)[1].price = 0 THEN Zero
    ELSE Movement(Relevant(d, r)[1].price, Relevant(d, r)[Len(Relevant(d, r))].price)

\* A slip: calc keeps only the window (self.data = relevant_data).
CalcKeeps_Window(d, r) == IF Len(d) < 2 THEN d ELSE Relevant(d, r)

\* What calc leaves in self.data: it assigns nothing.
CalcKeeps(d, r) == d

\* calc()
Calc ==
    /\ made
    /\ ret' = [op |-> "calc", after |-> ret.op, data |-> data, range |-> range,
               val |-> CalcResult(data, range)]
    /\ data' = CalcKeeps(data, range)
    /\ UNCHANGED <<storeVars, trimVars, tailVars, made, range, added>>

\* ------------------------------------------------------------- outages
Fail ==
    /\ up
    /\ up' = FALSE
    /\ UNCHANGED <<stream_maxlen, exists, stream, lastgen, clock, log, wsince, ret,
                   trimVars, tailVars, moveVars>>

Recover ==
    /\ ~up
    /\ up' = TRUE
    /\ UNCHANGED <<stream_maxlen, exists, stream, lastgen, clock, log, wsince, ret,
                   trimVars, tailVars, moveVars>>

\* ------------------------------------------------------------- Init
Init ==
    /\ up = TRUE
    /\ stream_maxlen \in 1..MaxRetention
    /\ exists = FALSE
    /\ stream = <<>>
    /\ lastgen = <<0, 0>>
    /\ clock = 1
    /\ log = <<>>
    /\ wsince = FALSE
    /\ ret = [op |-> "none"]
    /\ tpc = "idle"
    /\ tminid = <<0, 0>>
    /\ tids = {}
    /\ tinter = FALSE
    /\ pc = [c \in Consumers |-> "new"]
    /\ cursor = [c \in Consumers |-> <<0, 0>>]
    /\ batch = [c \in Consumers |-> <<>>]
    /\ yielded = [c \in Consumers |-> <<>>]
    /\ fetched = [c \in Consumers |-> {}]
    /\ made = FALSE
    /\ range = 0
    /\ data = <<>>
    /\ added = <<>>

Times == clock..MaxClock

\* ------------------------------------------------------------- Spec
Dict(ev) == [isdict |-> TRUE, ev |-> ev]
NotADict == [isdict |-> FALSE, ev |-> EmptyEvent]

\* What write is called with: an event, a dict json cannot serialise, something
\* that is no dict.
WriteInputs ==
    { Dict([k \in {"timestamp"} |-> Num(1)]),
      Dict([k \in {"timestamp"} |-> Obj]),
      NotADict }

Cutoffs == 0..((MaxClock + 1) * TicksPerMs)

\* What trim is called with: a string or a datetime for every cutoff, a string
\* that is no date, something that is neither.
TrimInputs ==
    {IsoString(ticks) : ticks \in Cutoffs} \cup {Datetime(ticks) : ticks \in Cutoffs}
        \cup {BadString, NotATime}

Next ==
    \/ \E value \in WriteInputs, t \in Times : Write(value, t)
    \/ \E ts \in TrimInputs, supported \in BOOLEAN : Trim(ts, supported)
    \/ TrimScan
    \/ TrimDel
    \/ Delete
    \/ Fail
    \/ Recover

Spec == Init /\ [][Next]_vars

\* ------------------------------------------------------------- ReadSpec
ReadEvents ==
    { EmptyEvent,
      [k \in {"timestamp"} |-> Num(1)],
      [k \in {"timestamp"} |-> Num(2)],
      [k \in {"timestamp"} |-> Str(1)],
      [k \in {"timestamp", "_id"} |-> IF k = "timestamp" THEN Num(1) ELSE Str(1)] }

ReadNext ==
    \/ \E ev \in ReadEvents : Write(Dict(ev), clock)
    \/ ForeignAdd(clock)
    \/ \E order \in BOOLEAN : ReadAll(order)

ReadSpec == Init /\ [][ReadNext]_vars

\* ------------------------------------------------------------- TailSpec
TailEvents ==
    { [k \in {"timestamp"} |-> Num(1)],
      [k \in {"timestamp"} |-> Num(2)] }

\* One consumer, writers, other clients' entries and outages.
TailNext ==
    \/ \E ev \in TailEvents : Write(Dict(ev), clock)
    \/ ForeignAdd(clock)
    \/ TailStart("c1")
    \/ TailRead("c1")
    \/ TailWake("c1")
    \/ TailEntry("c1")
    \/ Fail
    \/ Recover

\* The consumer keeps pulling from its generator, and the generator keeps polling.
TailSpec == Init /\ [][TailNext]_vars /\ WF_vars(TailStep("c1"))

\* ------------------------------------------------------------- ConcSpec
\* Every consumer and the writers, interleaved.
ConcNext ==
    \/ \E ev \in TailEvents : Write(Dict(ev), clock)
    \/ \E c \in Consumers : TailStart(c)
    \/ \E c \in Consumers : TailRead(c)
    \/ \E c \in Consumers : TailEntry(c)

ConcSpec == Init /\ [][ConcNext]_vars /\ \A c \in Consumers : WF_vars(TailStep(c))

\* ------------------------------------------------------------- SortSpec
MaxSorted == 4         \* events in the stream that read_all sorts

SortEvents ==
    { EmptyEvent,
      [k \in {"timestamp"} |-> Num(1)],
      [k \in {"timestamp"} |-> Num(2)],
      [k \in {"timestamp"} |-> Str(1)] }

\* The stream after the events f[1], f[2], ... were written within one
\* millisecond.
StoredAs(f) ==
    [i \in DOMAIN f |-> Entry(<<1, i - 1>>, TRUE, TRUE, Dumps(f[i]).text)]

\* A store that holds up to MaxSorted events, none trimmed away.
SortInit ==
    /\ up = TRUE
    /\ stream_maxlen = MaxSorted
    /\ \E n \in 1..MaxSorted : \E f \in [1..n -> SortEvents] : stream = StoredAs(f)
    /\ exists = TRUE
    /\ lastgen = stream[Len(stream)].id
    /\ clock = 1
    /\ log = stream
    /\ wsince = TRUE
    /\ ret = [op |-> "none"]
    /\ tpc = "idle"
    /\ tminid = <<0, 0>>
    /\ tids = {}
    /\ tinter = FALSE
    /\ pc = [c \in Consumers |-> "new"]
    /\ cursor = [c \in Consumers |-> <<0, 0>>]
    /\ batch = [c \in Consumers |-> <<>>]
    /\ yielded = [c \in Consumers |-> <<>>]
    /\ fetched = [c \in Consumers |-> {}]
    /\ made = FALSE
    /\ range = 0
    /\ data = <<>>
    /\ added = <<>>

SortNext == \E order \in BOOLEAN : ReadAll(order)

SortSpec == SortInit /\ [][SortNext]_vars

\* ------------------------------------------------------------- FilterSpec
\* Events with an id "X" (Str(1)) or "Y" (Str(2)), or with none.
FilterEvents ==
    { [k \in {"timestamp", "id"} |-> IF k = "id" THEN Str(1) ELSE Num(1)],
      [k \in {"timestamp", "id"} |-> IF k = "id" THEN Str(1) ELSE Num(2)],
      [k \in {"timestamp", "id"} |-> IF k = "id" THEN Str(2) ELSE Num(1)] }

IdValues == {Str(1), Str(2)}

FilterNext ==
    \/ \E ev \in FilterEvents : Write(Dict(ev), clock)
    \/ ForeignAdd(clock)
    \/ \E v \in IdValues : FilteredDelete("id", v)
    \/ \E v \in IdValues : LatestMatching("id", v)

FilterSpec == Init /\ [][FilterNext]_vars

\* ------------------------------------------------------------- MoveSpec
MaxSamples == 3        \* samples added between two clears
Stamps == {0, 1, 4}
Prices == {0, 100, 110}
Ranges == {0, 2, 5}

\* The caller adds a sample of any time and price.
MoveAdd(t, p) == Len(added) < MaxSamples /\ Add(t, p)

\* One tracker, fed samples in any order of time, queried and cleared.
MoveNext ==
    \/ \E r \in Ranges : NewTracker(r)
    \/ \E t \in Stamps, p \in Prices : MoveAdd(t, p)
    \/ Clear
    \/ Calc

MoveSpec == Init /\ [][MoveNext]_vars

\* ------------------------------------------------------------- FillSpec
MaxAdds == 502         \* samples added between two clears

\* The caller adds the next sample of a series: a minute later, a unit dearer.
FillAdd == Len(added) < MaxAdds /\ Add(Len(added), 100 + Len(added))

\* One tracker fed a sample a minute, past its capacity.
FillNext ==
    \/ \E r \in Ranges : NewTracker(r)
    \/ FillAdd
    \/ Clear

FillSpec == Init /\ [][FillNext]_vars

\* ------------------------------------------------------------- read_all claims
AllEvents(s) == \A i \in 1..Len(s) : IsEventEntry(s[i])

\* The entry is what write stores for event ev.
StoredFrom(e, ev) == e.present /\ e.utf8 /\ e.text = Dumps(ev).text

Count(s, x) == Cardinality({i \in 1..Len(s) : s[i] = x})
IsPermutation(s, t) ==
    /\ Len(s) = Len(t)
    /\ \A x \in Range(s) \cup Range(t) : Count(s, x) = Count(t, x)

\* C2 as stated: every event written and read back with read_all comes back equal
\* to the original, no key added or removed.
C2_RoundTripExact ==
    (ret.op = "read_all" /\ ret.up /\ ~ret.raised) =>
        LET es == SelectSeq(ret.src, IsEventEntry) IN
        /\ Len(ret.items) = Len(es)
        /\ \A i \in 1..Len(es) : \A ev \in ReadEvents :
               StoredFrom(es[i], ev) =>
                   \E j \in 1..Len(ret.items) :
                       (ret.order \/ j = i) /\ ret.items[j] = ev

\* The payload p is event ev with the entry id under '_id' when ev has no '_id'.
SameButId(p, ev, id) ==
    /\ DOMAIN p = (DOMAIN ev) \cup {"_id"}
    /\ \A k \in DOMAIN ev : p[k] = ev[k]
    /\ "_id" \notin DOMAIN ev => p["_id"] = IdVal(id)

\* C2 (amended): the list read_all returns holds one payload for every event
\* written and still stored, with every key of the original and its value, and
\* with one key more, '_id', holding the entry id, exactly when the original has
\* no '_id' key.
C2_RoundTripButId ==
    (ret.op = "read_all" /\ ret.up /\ ~ret.raised) =>
        LET es == SelectSeq(ret.src, IsEventEntry) IN
        /\ Len(ret.items) = Len(es)
        /\ \A i \in 1..Len(es) : \A ev \in ReadEvents :
               StoredFrom(es[i], ev) =>
                   \E j \in 1..Len(ret.items) :
                       (ret.order \/ j = i) /\ SameButId(ret.items[j], ev, es[i].id)

\* read_all returned two events written one with an '_id' of its own, one without.
C2_Witness ==
    /\ ret.op = "read_all" /\ ~ret.order /\ AllEvents(ret.src) /\ ~ret.raised
    /\ Len(ret.items) >= 2
    /\ \E i, j \in 1..Len(ret.src) :
          /\ "_id" \in DOMAIN Loads(ret.src[i].text).ev
          /\ "_id" \notin DOMAIN Loads(ret.src[j].text).ev
          /\ ret.items[j]["_id"] = IdVal(ret.src[j].id)

\* C3: read_all never fails on a corrupted entry, returns one payload for every
\* entry that decodes to a mapping and skips only the others.
C3_SkipsOnlyCorrupted ==
    (ret.op = "read_all" /\ ret.up) =>
        /\ ~ret.raised
        /\ Len(ret.items) = Cardinality({i \in 1..Len(ret.src) : IsEventEntry(ret.src[i])})

\* Every stored entry is an event with a timestamp, all of one comparable type.
ComparableTimestamps(s) ==
    /\ AllEvents(s)
    /\ \A i \in 1..Len(s) : "timestamp" \in DOMAIN Loads(s[i].text).ev
    /\ \A i, j \in 1..Len(s) :
          Comparable(Loads(s[i].text).ev["timestamp"], Loads(s[j].text).ev["timestamp"])

NonDecreasing(items) ==
    \A i, j \in 1..Len(items) :
        i < j => ~KeyLT(items[j]["timestamp"], items[i]["timestamp"])

\* C4: with a comparable timestamp in every stored event, read_all(order=True)
\* returns a permutation of the stored events, non-decreasing by timestamp.
C4_OrderedByTimestamp ==
    (ret.op = "read_all" /\ ret.up /\ ret.order /\ ComparableTimestamps(ret.src)) =>
        /\ ~ret.raised
        /\ NonDecreasing(ret.items)
        /\ IsPermutation(ret.items, ReadLoop(ret.src, 1, <<>>).items)

\* read_all(order=True) moved an event written later in front of an earlier one.
C4_Witness ==
    /\ ret.op = "read_all" /\ ret.order /\ ComparableTimestamps(ret.src)
    /\ Len(ret.src) >= 2
    /\ ret.items # ReadLoop(ret.src, 1, <<>>).items

\* Where payload x stands in list l.
PlaceIn(l, x) == CHOOSE i \in 1..Len(l) : l[i] = x

\* Some two of the events have timestamps that cannot be compared.
Incomparable(items) ==
    \E i, j \in 1..Len(items) : ~Comparable(TsKey(items[i]), TsKey(items[j]))

\* C16: read_all(order=True) keeps events of equal timestamp in entry-id order,
\* and returns exactly the list of order=False when no event has a timestamp
\* and when the timestamps cannot be compared.
C16_FallsBackToIdOrder ==
    (ret.op = "read_all" /\ ret.up /\ ret.order /\ ~ret.raised) =>
        LET plain == ReadLoop(ret.src, 1, <<>>).items IN
        /\ IsPermutation(ret.items, plain)
        /\ \A i, j \in 1..Len(ret.items) :
               (i < j /\ TsKey(ret.items[i]) = TsKey(ret.items[j])) =>
                   PlaceIn(plain, ret.items[i]) < PlaceIn(plain, ret.items[j])
        /\ (\A i \in 1..Len(plain) : "timestamp" \notin DOMAIN plain[i]) =>
               ret.items = plain
        /\ Incomparable(plain) => ret.items = plain

\* ------------------------------------------------------------- write claims
WriteStep == \E value \in WriteInputs, t \in Times : Write(value, t)

\* C5: after any writes the stream holds at most stream_maxlen entries plus the
\* store's slack, and a write removes only the oldest entries: what it leaves is
\* the newest entries of the stream followed by the entry it appended.
C5_RetentionBound ==
    /\ [](Len(stream) <= stream_maxlen + Slack)
    /\ [][(WriteStep /\ ret'.stored) =>
            /\ stream' # <<>>
            /\ stream'[Len(stream')] = log'[Len(log')]
            /\ \E k \in 0..Len(stream) :
                  SubSeq(stream', 1, Len(stream') - 1) =
                      SubSeq(stream, Len(stream) - k + 1, Len(stream))]_vars

\* More entries were written than the retention limit, and the latest write
\* trimmed the stream.
C5_Witness ==
    /\ ret.op = "write" /\ ret.stored /\ ret.trimmed > 0
    /\ NumWritten(log) > stream_maxlen
    /\ Len(stream) >= stream_maxlen

\* C9 as stated: a failed write is reported to its caller, who can tell it from a
\* successful one.
C9_FailureReported ==
    (ret.op = "write" /\ ~ret.stored) => ret.raised

\* C9 (amended): write raises only when its argument is no dict; a dict that
\* cannot be serialised and an unreachable store are printed and swallowed, and
\* write returns as after a success. A write that fails leaves the stream as it
\* was; a write that succeeds appends one entry (no retry).
C9_FailureSwallowed ==
    /\ [](ret.op = "write" =>
            /\ ret.raised <=> ~ret.value.isdict
            /\ ret.stored <=> (ret.value.isdict /\ Dumps(ret.value.ev).ok /\ ret.up))
    /\ [][WriteStep =>
            IF ret'.stored
            THEN Len(log') = Len(log) + 1
            ELSE UNCHANGED <<stream, log, exists, lastgen>>]_vars

\* A write to an unreachable store returned as a successful one does.
C9_Witness ==
    /\ ret.op = "write" /\ ret.value.isdict /\ Dumps(ret.value.ev).ok
    /\ ~ret.up /\ ~ret.stored /\ ~ret.raised

\* ------------------------------------------------------------- trim claims
NoNewerRemoved(minid) ==
    \A i \in 1..Len(stream) :
        IdLT(minid, stream[i].id) => stream[i] \in Range(stream')

\* C8: no step of trim, on the server-side path or on the fallback path, removes
\* an entry whose id is above the cutoff id, whatever was written between the
\* fallback's scan and its delete.
C8_TrimKeepsNewer ==
    [][/\ \A ticks \in Cutoffs, supported \in BOOLEAN :
             TrimCall(ticks, supported) => NoNewerRemoved(MinId(ticks))
       /\ TrimScan => stream' = stream
       /\ TrimDel => NoNewerRemoved(tminid)]_vars

\* The fallback removed entries and kept a newer one, a write having come between
\* its scan and its delete.
C8_Witness ==
    /\ ret.op = "trim" /\ ret.path = "fallback" /\ ~ret.none /\ ret.n > 0
    /\ ret.inter
    /\ \E i \in 1..Len(stream) : IdLT(ret.minid, stream[i].id)

\* No entry of s has an id below minid.
NothingOlder(s, minid) == \A i \in 1..Len(s) : ~IdLT(s[i].id, minid)

\* C11: trim runs the fallback only when the server-side trim failed; on either
\* path it returns the number of entries it removed, which is 0 when no entry is
\* older than the cutoff; it returns None only when the cutoff does not parse or
\* both paths failed, and then it leaves the stream as it was.
C11_TrimReturn ==
    [][/\ \A ts \in TrimInputs, supported \in BOOLEAN : Trim(ts, supported) =>
             /\ TrimArg(ts) = "none" =>
                    (ret'.none /\ stream' = stream /\ tpc' = "idle")
             /\ (TrimArg(ts) = "go" /\ up /\ supported) =>
                    /\ tpc' = "idle"
                    /\ ret'.path = "fast" /\ ~ret'.none
                    /\ ret'.n = Len(stream) - Len(stream')
                    /\ NothingOlder(stream, MinId(ts.ticks)) => ret'.n = 0
             /\ (TrimArg(ts) = "go" /\ ~(up /\ supported)) =>
                    (tpc' = "fallback" /\ stream' = stream)
       /\ (TrimScan /\ tpc' = "idle") =>
             /\ stream' = stream
             /\ ret'.path = "fallback" /\ ret'.n = 0
             /\ ret'.none <=> ~up
       /\ TrimDel =>
             /\ ret'.path = "fallback"
             /\ ret'.none <=> ~up
             /\ ret'.none => stream' = stream
             /\ ~ret'.none =>
                    /\ ret'.n = Len(stream) - Len(stream')
                    /\ NothingOlder(stream, tminid) => ret'.n = 0]_vars

\* C18: the fallback removes what XTRIM MINID would remove of the same stream,
\* and returns the same count: its scan selects the ids XTRIM would evict, and
\* its delete, when nothing was written since the scan, leaves the stream XTRIM
\* would leave.
C18_PathsEquivalent ==
    [][/\ (TrimScan /\ up) =>
             LET gone == {stream[i].id : i \in Evicted(stream, tminid)}
             IN IF tpc' = "idle" THEN gone = {} /\ ret'.n = 0 ELSE tids' = gone
       /\ (TrimDel /\ up /\ ~tinter) =>
             LET gone == {stream[i].id : i \in Evicted(stream, tminid)}
             IN stream' = Without(stream, gone) /\ ret'.n = Cardinality(gone)]_vars

\* ------------------------------------------------------------- filter claims
FirstOf(S) == CHOOSE i \in S : \A j \in S : i <= j
LastOf(S) == CHOOSE i \in S : \A j \in S : j <= i

\* The places in s of the events whose id is v.
WithId(s, v) ==
    {i \in 1..Len(s) :
        /\ IsEventEntry(s[i])
        /\ "id" \in DOMAIN Loads(s[i].text).ev
        /\ Loads(s[i].text).ev["id"] = v}

\* latestMatching(stream, "id", v) on contents s finds the newest event with id v.
FindsNewest(r, s, v) ==
    IF WithId(s, v) = {} THEN ~r.found
    ELSE r.found /\ r.payload = Loads(s[LastOf(WithId(s, v))].text).ev

\* C14: filteredDelete(stream, "id", X) removes all and only the entries whose
\* payload has id X, entries that do not decode are kept, and latestMatching
\* for X, called right after it, returns not-found; latestMatching returns the
\* newest matching entry of the stream it is called on.
C14_FilteredDelete ==
    /\ [][\A v \in IdValues :
             (ret'.op = "filteredDelete" /\ ret'.value = v /\ FilteredDelete("id", v)) =>
             /\ LET gone == {stream[i] : i \in WithId(stream, v)}
                IN stream' = SelectSeq(stream, LAMBDA e : e \notin gone)
             /\ WithId(stream', v) = {}
             /\ \A i \in 1..Len(stream) :
                    ~IsEventEntry(stream[i]) => stream[i] \in Range(stream')]_vars
    /\ [][\A v \in IdValues :
             (/\ ret.op = "filteredDelete" /\ ret.value = v
              /\ ret'.op = "latestMatching" /\ LatestMatching("id", v)) => ~ret'.found]_vars
    /\ [](ret.op = "latestMatching" => FindsNewest(ret, ret.src, ret.value))

\* latestMatching found nothing right after a filteredDelete that removed two
\* of three events and kept an entry that does not decode.
C14_Witness ==
    /\ ret.op = "latestMatching" /\ ret.after = "filteredDelete" /\ ~ret.found
    /\ stream # <<>>
    /\ \E i \in 1..Len(stream) : ~IsEventEntry(stream[i])
    /\ \E i \in 1..Len(stream) : IsEventEntry(stream[i])
    /\ Cardinality(WithId(log, ret.value)) >= 2

\* ------------------------------------------------------------- tracker claims
Min(a, b) == IF a < b THEN a ELSE b

AddStep == \E x \in Range(added') : Add(x.timestamp, x.price)

\* C12: the history never holds more than max_size samples and is the most
\* recent min(n, max_size) of the n samples added since the last clear, in the
\* order they were added; an add to a full history drops exactly the oldest
\* sample; clear leaves the history empty.
C12_BoundedFifo ==
    /\ [](/\ Len(data) <= max_size
          /\ data = LastN(added, Min(Len(added), max_size)))
    /\ [][(AddStep /\ Len(data) = max_size) =>
             (Len(data') = max_size /\ SubSeq(data', 1, max_size - 1) = Tail(data))]_vars
    /\ [][Clear => data' = <<>>]_vars

\* 501 samples were added: 500 are held, the first one gone.
C12_Witness ==
    /\ Len(added) = max_size + 1
    /\ Len(data) = max_size
    /\ data[1] = added[2]
    /\ data[max_size] = added[max_size + 1]

\* The places in history d of the samples later than the last-added sample's
\* time less r minutes.
WindowIdx(d, r) ==
    {i \in 1..Len(d) : d[i].timestamp > d[Len(d)].timestamp - r}

\* The fraction v is (last - first) / first * 100.
IsMovement(v, first, last) ==
    v.den > 0 /\ v.num * first = (last - first) * 100 * v.den

\* C13: calc returns 0.0 on a history of fewer than 2 samples, on an empty
\* window and on a window whose first value is 0; otherwise it returns
\* (last - first) / first * 100 of the window's first and last values in
\* insertion order; samples (0,100), (1,100), (4,110) with range 5 give 10.
C13_CalcValue ==
    ret.op = "calc" =>
        LET d == ret.data
            w == WindowIdx(ret.data, ret.range)
        IN /\ Len(d) < 2 => ret.val = Zero
           /\ (Len(d) >= 2 /\ w = {}) => ret.val = Zero
           /\ (Len(d) >= 2 /\ w # {} /\ d[FirstOf(w)].price = 0) => ret.val = Zero
           /\ (Len(d) >= 2 /\ w # {} /\ d[FirstOf(w)].price # 0) =>
                  IsMovement(ret.val, d[FirstOf(w)].price, d[LastOf(w)].price)
           /\ (d = <<Sample(0, 100), Sample(1, 100), Sample(4, 110)>> /\ ret.range = 5) =>
                  ret.val = [num |-> 10, den |-> 1]

\* calc returned 10 on the samples (0,100), (1,100), (4,110) with range 5.
C13_Witness ==
    /\ ret.op = "calc" /\ ret.range = 5
    /\ ret.data = <<Sample(0, 100), Sample(1, 100), Sample(4, 110)>>
    /\ ret.val = [num |-> 10, den |-> 1]

\* C19: calc changes neither the history nor the range; a calc that follows a
\* calc returns what that one returned; a calc that follows a clear returns 0.0.
C19_CalcIsPure ==
    [][Calc =>
          /\ data' = data /\ range' = range /\ added' = added
          /\ ret.op = "calc" => ret'.val = ret.val
          /\ ret.op = "clear" => ret'.val = Zero]_vars

\* Two calc calls in a row returned the same movement, not 0.0.
C19_Witness ==
    /\ ret.op = "calc" /\ ret.after = "calc"
    /\ ret.val # Zero
    /\ data = ret.data /\ Len(data) >= 2

\* ------------------------------------------------------------- delete claims
\* C10: delete returns True exactly when the store answered and the stream had
\* been written to since it was last deleted (trimmed empty or not); the key
\* exists exactly from a write to the next successful delete; once deleted,
\* read_all returns the empty list.
C10_DeleteReturn ==
    /\ ret.op = "delete" => (ret.val <=> (ret.up /\ ret.wsince))
    /\ exists <=> wsince
    /\ (ret.op = "delete" /\ ret.val) => (~exists /\ stream = <<>>)
    /\ ~exists => \A order \in BOOLEAN :
          ReadAllResult(stream, order, up) = [raised |-> FALSE, items |-> <<>>]

\* delete returned True for a stream whose entries had all been trimmed away.
C10_Witness ==
    ret.op = "delete" /\ ret.val /\ ret.wasempty /\ ret.wsince

\* ------------------------------------------------------------- read_each claims
\* Nothing was trimmed away and every entry is an event written by write.
Clean == stream = log /\ AllEvents(log)

\* The events written, in the order of the writes.
EventsOf(l) == [i \in 1..Len(l) |-> CHOOSE ev \in TailEvents : StoredFrom(l[i], ev)]

\* The payloads a consumer was handed, in the order it got them.
Payloads(c) == [i \in 1..Len(yielded[c]) |-> yielded[c][i].ev]

\* C1: a single consumer is handed the events written, each once, in the order
\* of the writes, whether it started before or after them; none is left out
\* once the store stays reachable.
C1_TailExactOrder ==
    /\ [](Clean => IsPrefix(Payloads("c1"), EventsOf(log)))
    /\ (<>[]up) => <>[](Clean => Payloads("c1") = EventsOf(log))

\* The consumer has been handed all of three writes, of two different events.
C1_Witness ==
    /\ Clean /\ Len(log) >= 3
    /\ Payloads("c1") = EventsOf(log)
    /\ \E i, j \in 1..Len(log) : EventsOf(log)[i] # EventsOf(log)[j]

\* An entry tail cannot decode: no data field, bytes that are not text, text
\* that is not JSON.
Malformed(e) == RawIsNone(e) \/ ~e.utf8 \/ ~Loads(e.text).ok

\* What the well-formed entries of l decode to, in entry-id order.
Decoded(l) ==
    LET good == SelectSeq(l, LAMBDA e : ~Malformed(e))
    IN [i \in 1..Len(good) |-> Loads(good[i].text)]

\* C15: tail skips a malformed entry: it goes on to the next entry of the
\* response and yields nothing for it; what it yields are the well-formed
\* entries, in entry-id order, and all of them once the store stays reachable.
C15_SkipsMalformed ==
    /\ [][(pc["c1"] = "batch" /\ Malformed(Head(batch["c1"])) /\ TailEntry("c1")) =>
             /\ batch'["c1"] = Tail(batch["c1"])
             /\ pc'["c1"] \in {"batch", "poll"}
             /\ yielded' = yielded]_vars
    /\ [](stream = log => IsPrefix(yielded["c1"], Decoded(log)))
    /\ (<>[]up) => <>[](stream = log => yielded["c1"] = Decoded(log))

\* C17: when tail has worked through a response, its cursor is the id of the
\* last entry of that response, skipped or not; the cursor never goes back; no
\* xread hands the tail an entry that an earlier xread handed it.
C17_CursorFollowsBatch ==
    /\ [][(pc["c1"] = "batch" /\ TailEntry("c1") /\ pc'["c1"] = "poll") =>
             cursor'["c1"] = Head(batch["c1"]).id]_vars
    /\ [][~IdLT(cursor'["c1"], cursor["c1"])]_vars
    /\ [][(TailRead("c1") /\ pc'["c1"] = "batch") =>
             \A i \in 1..Len(batch'["c1"]) : batch'["c1"][i].id \notin fetched["c1"]]_vars

\* C6: a failed read never ends the tail: it leaves the cursor and what was
\* yielded as they were, the generator sleeps and polls again, and once the
\* store stays reachable every event is yielded, once and in order.
C6_TailSurvivesErrors ==
    /\ [](pc["c1"] \in {"new", "poll", "batch", "sleep"})
    /\ [][(~up /\ TailRead("c1")) =>
             (cursor' = cursor /\ yielded' = yielded /\ batch' = batch)]_vars
    /\ [](pc["c1"] = "sleep" => <>(pc["c1"] = "poll"))
    /\ (<>(pc["c1"] = "sleep") /\ <>[]up) =>
           <>[](Clean => Payloads("c1") = EventsOf(log))

\* A read failed after the consumer had been handed an event and before it was
\* handed the next one.
C6_Witness ==
    /\ pc["c1"] = "sleep" /\ ~up /\ Clean
    /\ Len(yielded["c1"]) >= 1
    /\ Len(yielded["c1"]) < Len(log)

\* C7: each of several consumers is handed the events written, in order, and a
\* step of one consumer changes nothing of another: not its cursor, not the
\* response it is working through, not what it has been handed.
C7_IndependentCursors ==
    /\ [](Clean => \A c \in Consumers : IsPrefix(Payloads(c), EventsOf(log)))
    /\ [][\A c \in Consumers : TailStep(c) =>
             \A d \in Consumers \ {c} :
                 /\ cursor'[d] = cursor[d]
                 /\ batch'[d] = batch[d]
                 /\ yielded'[d] = yielded[d]
                 /\ pc'[d] = pc[d]]_vars
    /\ <>[](Clean => \A c \in Consumers : Payloads(c) = EventsOf(log))

\* One consumer has been handed every event while the other is part-way.
C7_Witness ==
    /\ Clean /\ Len(log) >= 2
    /\ Payloads("c1") = EventsOf(log)
    /\ Len(yielded["c2"]) >= 1
    /\ Len(yielded["c2"]) < Len(log)

============================================================================
